---- MODULE Spec2Model ----
(***************************************************************************)
(* Model of app/dashboard/management/commands/activity_report.py : the     *)
(* "activity_report" management command (argument parsing, the two store   *)
(* queries, record normalisation, the ordered merge, the CSV document, the *)
(* upload and the e-mail).                                                 *)
(*                                                                         *)
(* Python strings are tuples of one-character strings ("" is << >>).       *)
(* None, for a string-typed field, is the one-element tuple None below.    *)
(* A datetime is its day ordinal (an integer); a NULL datetime column is   *)
(* NoTime.                                                                 *)
(***************************************************************************)
EXTENDS Integers, Sequences, FiniteSets, TLC

VARIABLES
    pc,        \* position of the invocation in the command
    argv,      \* the two positional arguments as typed
    options,   \* the parsed options (start_date, end_date)
    bounties,  \* result of the Bounty query, in order
    tips,      \* result of the Tip query, in order
    gen,       \* state of the itermerge generator
    csvfile,   \* the StringIO document: a sequence of written rows
    has_rows,  \* the flag of handle
    stdout,    \* messages written to the console
    s3,        \* objects stored in the bucket: (key, contents)
    outbox,    \* calls of send_mail
    url,       \* the value returned by upload_to_s3
    events,    \* history of the external effects, in order
    failed_at, \* the step at which an exception propagated
    raw,       \* SpecNorm: the raw record given to format_bounty or format_tip
    item,      \* SpecNorm: the dict it returned
    S1,        \* SpecMerge: first input sequence of the merge
    S2,        \* SpecMerge: second input sequence of the merge
    out        \* SpecMerge: items yielded so far

vars == << pc, argv, options, bounties, tips, gen, csvfile, has_rows, stdout,
           s3, outbox, url, events, failed_at, raw, item, S1, S2, out >>

----------------------------------------------------------------------------
(* Bounds *)

\* longest URL, in tokens, given to format_bounty and format_tip in SpecNorm
MaxUrlLen == 5

\* longest input sequence and largest key given to the merge in SpecMerge
MaxLen == 3
MaxKey == 2

\* rows of each table of the store, and the days their timestamps span
MaxRows == 2
MaxDay == 3

----------------------------------------------------------------------------
(* Strings *)

None == << "None" >>
NoTime == 0 - 1

\* Pieces from which the URLs of the model are built.
TokenChars(t) ==
    CASE t = "S" -> << "h", "t", "t", "p", "s", ":", "/", "/" >>
      [] t = "G" -> << "g", "i", "t", "h", "u", "b", ".", "c", "o", "m", "/" >>
      [] t = "E" -> << "e", "x", "a", "m", "p", "l", "e", ".", "c", "o", "m", "/" >>
      [] t = "O" -> << "g", "i", "t", "c", "o", "i", "n", "c", "o" >>
      [] t = "W" -> << "w", "e", "b" >>
      [] OTHER   -> << t >>

RECURSIVE Expand(_)
Expand(ts) == IF ts = << >> THEN << >> ELSE TokenChars(Head(ts)) \o Expand(Tail(ts))

\* \w of the pattern, over the characters the model uses
WordChars == { "a", "b", "c", "e", "g", "h", "i", "l", "m", "n", "o", "p", "s", "t",
               "u", "w", "x", "_", "0" }

\* [\w-]
ClassChars == WordChars \cup { "-" }

----------------------------------------------------------------------------
(* GITHUB_REPO_PATTERN = re.compile('github.com/[\w-]+/([\w-]+)') *)

\* the literal prefix; "." (position 7) matches any character but a newline
PatternLiteral == << "g", "i", "t", "h", "u", "b", ".", "c", "o", "m", "/" >>

LiteralAt(s, p) ==
    /\ p + Len(PatternLiteral) - 1 <= Len(s)
    /\ \A k \in 1..Len(PatternLiteral) :
          IF PatternLiteral[k] = "." THEN s[p + k - 1] # "\n"
                                     ELSE s[p + k - 1] = PatternLiteral[k]

\* greedy [\w-]* from position p: the position after the run
RECURSIVE RunEnd(_, _)
RunEnd(s, p) ==
    IF p <= Len(s) /\ s[p] \in ClassChars THEN RunEnd(s, p + 1) ELSE p

\* One match attempt anchored at p.  The class excludes "/", so giving back
\* characters of the owner run can never make the following "/" match: the
\* greedy attempt is the only one.
MatchAt(s, p) ==
    IF ~LiteralAt(s, p) THEN [ok |-> FALSE, group |-> << >>]
    ELSE LET o  == p + Len(PatternLiteral)
             oe == RunEnd(s, o)
         IN  IF oe = o \/ oe > Len(s) \/ s[oe] # "/"
             THEN [ok |-> FALSE, group |-> << >>]
             ELSE LET r  == oe + 1
                      re == RunEnd(s, r)
                  IN  IF re = r THEN [ok |-> FALSE, group |-> << >>]
                      ELSE [ok |-> TRUE, group |-> SubSeq(s, r, re - 1)]

\* pattern.search(s): the leftmost position at which a match attempt succeeds
RECURSIVE SearchFrom(_, _)
SearchFrom(s, p) ==
    IF p > Len(s) THEN [ok |-> FALSE, group |-> << >>]
    ELSE LET m == MatchAt(s, p)
         IN  IF m.ok THEN m ELSE SearchFrom(s, p + 1)

GITHUB_REPO_PATTERN_search(s) == SearchFrom(s, 1)

----------------------------------------------------------------------------
(* Console messages *)

WARNING_malformed(u) == << "WARNING: malformed github url", u >>
WARNING_no_activity(start, end) == << "No activity to report", start, end >>
SUCCESS_sent(start, end) == << "Sent activity report", start, end >>

----------------------------------------------------------------------------
(* Command.extract_github_repo *)

\* ret: the returned value; warn: the messages written; raised: an exception
\* left the method (pattern.search(None) is a TypeError)
extract_github_repo(u) ==
    IF u = None
    THEN [ret |-> None, warn |-> << >>, raised |-> TRUE]
    ELSE LET m == GITHUB_REPO_PATTERN_search(u)
         IN  IF ~m.ok
             THEN [ret |-> u, warn |-> << WARNING_malformed(u) >>, raised |-> FALSE]
             ELSE [ret |-> m.group, warn |-> << >>, raised |-> FALSE]

----------------------------------------------------------------------------
(* Raw records of the store (dashboard.models.Bounty, dashboard.models.Tip) *)

\* A column that the command only copies is the symbolic value of that
\* column of that row.
Column(model, id, name) == << model, id, name >>

Bounty(id, created, net, current, gh, owner, claimee) ==
    [ model |-> "Bounty", id |-> id, web3_created |-> created, network |-> net,
      current_bounty |-> current, github_url |-> gh,
      bounty_owner_github_username |-> owner, claimee_github_username |-> claimee,
      modified_on |-> Column("Bounty", id, "modified_on"),
      natural_value |-> Column("Bounty", id, "get_natural_value"),
      token_name |-> Column("Bounty", id, "token_name"),
      value_in_eth |-> Column("Bounty", id, "value_in_eth"),
      value_in_usdt |-> Column("Bounty", id, "value_in_usdt"),
      bounty_owner_address |-> Column("Bounty", id, "bounty_owner_address"),
      claimeee_address |-> Column("Bounty", id, "claimeee_address"),
      status |-> Column("Bounty", id, "status") ]

Tip(id, created, net, gh, email) ==
    [ model |-> "Tip", id |-> id, created_on |-> created, network |-> net,
      github_url |-> gh, from_email |-> email,
      modified_on |-> Column("Tip", id, "modified_on"),
      natural_value |-> Column("Tip", id, "get_natural_value"),
      tokenName |-> Column("Tip", id, "tokenName"),
      value_in_eth |-> Column("Tip", id, "value_in_eth"),
      value_in_usdt |-> Column("Tip", id, "value_in_usdt"),
      status |-> Column("Tip", id, "status") ]

----------------------------------------------------------------------------
(* Python truthiness of a string-or-None value, and "x or d" *)

Truthy(x) == x # None /\ x # << >>

PyOr(x, d) == IF Truthy(x) THEN x ELSE d

----------------------------------------------------------------------------
(* Command.format_bounty, Command.format_tip *)

\* Each returns item (the dict), warn (console messages written while it
\* ran) and raised (an exception left the method, there is no dict).
NoItem == [type |-> "none"]

format_bounty(bounty) ==
    LET repo == extract_github_repo(bounty.github_url)
    IN  IF repo.raised THEN [item |-> NoItem, warn |-> repo.warn, raised |-> TRUE]
        ELSE [ raised |-> FALSE, warn |-> repo.warn,
               item |-> [ type |-> "bounty",
                          created_on |-> bounty.web3_created,
                          last_activity |-> bounty.modified_on,
                          amount |-> bounty.natural_value,
                          denomination |-> bounty.token_name,
                          amount_eth |-> bounty.value_in_eth,
                          amount_usdt |-> bounty.value_in_usdt,
                          from_address |-> bounty.bounty_owner_address,
                          claimee_address |-> bounty.claimeee_address,
                          repo |-> repo.ret,
                          from_username |-> PyOr(bounty.bounty_owner_github_username, << >>),
                          claimee_github_username |-> PyOr(bounty.claimee_github_username, << >>),
                          status |-> bounty.status,
                          comments |-> << >> ] ]

format_tip_unguarded(tip) ==
    LET repo == extract_github_repo(tip.github_url)
    IN  IF repo.raised THEN [item |-> NoItem, warn |-> repo.warn, raised |-> TRUE]
        ELSE [ raised |-> FALSE, warn |-> repo.warn,
               item |-> [ type |-> "tip",
                          created_on |-> tip.created_on,
                          last_activity |-> tip.modified_on,
                          amount |-> tip.natural_value,
                          denomination |-> tip.tokenName,
                          amount_eth |-> tip.value_in_eth,
                          amount_usdt |-> tip.value_in_usdt,
                          from_address |-> << >>,
                          claimee_address |-> << >>,
                          repo |-> repo.ret,
                          from_username |-> tip.from_email,
                          claimee_github_username |-> << >>,
                          status |-> tip.status,
                          comments |-> << >> ] ]

format_tip(tip) ==
    LET repo == IF Truthy(tip.github_url)
                THEN extract_github_repo(tip.github_url)
                ELSE [ret |-> << >>, warn |-> << >>, raised |-> FALSE]
    IN  IF repo.raised THEN [item |-> NoItem, warn |-> repo.warn, raised |-> TRUE]
        ELSE [ raised |-> FALSE, warn |-> repo.warn,
               item |-> [ type |-> "tip",
                          created_on |-> tip.created_on,
                          last_activity |-> tip.modified_on,
                          amount |-> tip.natural_value,
                          denomination |-> tip.tokenName,
                          amount_eth |-> tip.value_in_eth,
                          amount_usdt |-> tip.value_in_usdt,
                          from_address |-> << >>,
                          claimee_address |-> << >>,
                          repo |-> repo.ret,
                          from_username |-> tip.from_email,
                          claimee_github_username |-> << >>,
                          status |-> tip.status,
                          comments |-> << >> ] ]

----------------------------------------------------------------------------
(* app.utils.itermerge(gen_a, gen_b, key): a generator.                    *)

NoGen == [a |-> NoItem, b |-> NoItem, i |-> 0, j |-> 0]

\* One next() of the generator over the inputs A and B.  g.a and g.b are the
\* heads already taken from the inputs and not yet yielded, g.i and g.j count
\* the elements taken from each input.  A missing head is taken from its
\* input (itermerge_heads); the head with the smaller key is yielded, the
\* head of A on a tie; when one input is exhausted the rest of the other
\* follows.  key is the key function, over the heads.
itermerge_heads(A, B, g) ==
    LET takeA == g.a = NoItem /\ g.i < Len(A)
        takeB == g.b = NoItem /\ g.j < Len(B)
    IN  [ a |-> IF takeA THEN A[g.i + 1] ELSE g.a,
          b |-> IF takeB THEN B[g.j + 1] ELSE g.b,
          i |-> IF takeA THEN g.i + 1 ELSE g.i,
          j |-> IF takeB THEN g.j + 1 ELSE g.j ]

itermerge_next(A, B, g, key) ==
    LET h == itermerge_heads(A, B, g)
    IN  IF h.a # NoItem /\ (h.b = NoItem \/ key[h.a] <= key[h.b])
        THEN [stop |-> FALSE, yielded |-> h.a, g |-> [h EXCEPT !.a = NoItem]]
        ELSE IF h.b # NoItem
        THEN [stop |-> FALSE, yielded |-> h.b, g |-> [h EXCEPT !.b = NoItem]]
        ELSE [stop |-> TRUE, yielded |-> NoItem, g |-> h]

\* lambda x: x['created_on']
created_on_key_descending(x) == 0 - x.created_on

created_on_key(x) == x.created_on

\* the elements the key function is applied to in one next()
Compared(A, B, g) == { itermerge_heads(A, B, g).a, itermerge_heads(A, B, g).b } \ { NoItem }

\* itermerge(formatted_bounties, formatted_tips, lambda x: x['created_on'])
merge_call_swapped(first, second, g) ==
    itermerge_next(second, first, g,
                   [x \in Compared(second, first, g) |-> created_on_key(x)])

merge_call(first, second, g) ==
    itermerge_next(first, second, g,
                   [x \in Compared(first, second, g) |-> created_on_key(x)])

----------------------------------------------------------------------------
(* Dates.  A date argument is the sequence of its digit groups and          *)
(* separators: "2018/01/02" is << 2018, "/", 1, "/", 2 >>.                  *)

NoDate == [year |-> 0, month |-> 0, day |-> 0]

DaysInMonth(y, m) ==
    IF m = 2 THEN (IF (y % 4 = 0 /\ y % 100 # 0) \/ y % 400 = 0 THEN 29 ELSE 28)
    ELSE IF m \in { 4, 6, 9, 11 } THEN 30 ELSE 31

\* datetime.datetime.strptime(v, fmt) for the formats '%Y<sep>%m<sep>%d'
strptime(v, sep) ==
    IF /\ Len(v) = 5
       /\ v[2] = sep /\ v[4] = sep
       /\ v[1] \in 1..9999
       /\ v[3] \in 1..12
       /\ v[5] \in 1..DaysInMonth(v[1], v[3])
    THEN [ok |-> TRUE, value |-> [year |-> v[1], month |-> v[3], day |-> v[5]]]
    ELSE [ok |-> FALSE, value |-> NoDate]

\* datetime.strftime(fmt) for the same formats
strftime(d, sep) == << d.year, sep, d.month, sep, d.day >>

\* DATE_FORMAT = '%Y/%m/%d' and DATE_FORMAT_HYPHENATED = '%Y-%m-%d'
DATE_FORMAT == "/"
DATE_FORMAT_HYPHENATED == "-"

\* the position of a datetime on the time line, in days
DayNumber(d) == (d.year * 12 + (d.month - 1)) * 31 + d.day

\* valid_date(v): ok is FALSE when argparse.ArgumentTypeError is raised
valid_date_either_format(v) ==
    IF strptime(v, DATE_FORMAT).ok THEN strptime(v, DATE_FORMAT)
    ELSE strptime(v, DATE_FORMAT_HYPHENATED)

valid_date(v) == strptime(v, DATE_FORMAT)

----------------------------------------------------------------------------
(* The store: the rows of the two tables the queries read.                  *)

\* https://github.com/gitcoinco/web and https://example.com/x
GitcoinWebUrl == Expand(<< "S", "G", "O", "/", "W" >>)
ExampleUrl == Expand(<< "S", "E", "x" >>)

\* the timestamps of the rows: midnight of the first MaxDay days of 2018,
\* or NULL
Times == { DayNumber([year |-> 2018, month |-> 1, day |-> d]) : d \in 1..MaxDay }
         \cup { NoTime }

Networks == { "mainnet", "rinkeby" }

\* The row with primary key id.  The columns that only the normaliser reads
\* alternate with the key.
BountyRow(id, created, net, current) ==
    IF id % 2 = 1
    THEN Bounty(id, created, net, current, GitcoinWebUrl, << "a", "l" >>, None)
    ELSE Bounty(id, created, net, current, ExampleUrl, None, << "b", "o" >>)

TipRow(id, created, net) ==
    IF id % 2 = 1
    THEN Tip(id, created, net, None, << "a", "@", "b" >>)
    ELSE Tip(id, created, net, GitcoinWebUrl, << >>)

\* A table is the sequence of its rows by primary key; cols gives the
\* timestamp, the network and (for a bounty) current_bounty of each row.
BountyColumns == Times \X Networks \X BOOLEAN
TipColumns == Times \X Networks

BountyTable(cols) == [id \in DOMAIN cols |-> BountyRow(id, cols[id][1], cols[id][2], cols[id][3])]
TipTable(cols) == [id \in DOMAIN cols |-> TipRow(id, cols[id][1], cols[id][2])]

\* a comparison with NULL is not true
InRange(t, opts) ==
    /\ t # NoTime
    /\ t >= DayNumber(opts.start_date)
    /\ t <= DayNumber(opts.end_date)

\* rows.order_by(field, 'id')
RECURSIVE Insert(_, _, _)
Insert(sorted, row, field) ==
    IF sorted = << >> THEN << row >>
    ELSE IF row[field] < Head(sorted)[field]
              \/ (row[field] = Head(sorted)[field] /\ row.id < Head(sorted).id)
    THEN << row >> \o sorted
    ELSE << Head(sorted) >> \o Insert(Tail(sorted), row, field)

RECURSIVE OrderBy(_, _)
OrderBy(rows, field) ==
    IF rows = << >> THEN << >> ELSE Insert(OrderBy(Tail(rows), field), Head(rows), field)

\* Bounty.objects.filter(network='mainnet', current_bounty=True,
\*   web3_created__gte=start, web3_created__lte=end).order_by('web3_created', 'id')
bounty_query_by_id(table, opts) ==
    LET Keep(row) == /\ row.network = "mainnet"
                     /\ row.current_bounty = TRUE
                     /\ InRange(row.web3_created, opts)
    IN  OrderBy(SelectSeq(table, Keep), "id")

bounty_query(table, opts) ==
    LET Keep(row) == /\ row.network = "mainnet"
                     /\ row.current_bounty = TRUE
                     /\ InRange(row.web3_created, opts)
    IN  OrderBy(SelectSeq(table, Keep), "web3_created")

\* Tip.objects.filter(network='mainnet', created_on__gte=start,
\*   created_on__lte=end).order_by('created_on', 'id')
tip_query(table, opts) ==
    LET Keep(row) == /\ row.network = "mainnet"
                     /\ InRange(row.created_on, opts)
    IN  OrderBy(SelectSeq(table, Keep), "created_on")

----------------------------------------------------------------------------
(* The document *)

FIELDNAMES_reordered ==
    << "type", "last_activity", "created_on", "amount", "denomination", "amount_eth",
       "amount_usdt", "from_address", "claimee_address", "repo", "from_username",
       "claimee_github_username", "status", "comments" >>

\* csv.DictWriter(csvfile, fieldnames=[...])
FIELDNAMES ==
    << "type", "created_on", "last_activity", "amount", "denomination", "amount_eth",
       "amount_usdt", "from_address", "claimee_address", "repo", "from_username",
       "claimee_github_username", "status", "comments" >>

\* csvwriter.writerow(item): ValueError for a key that is no field name, the
\* empty string for a field the dict lacks.  The cells keep the values of
\* the dict.
writerow(d) ==
    IF \E k \in DOMAIN d : \A n \in 1..Len(FIELDNAMES) : FIELDNAMES[n] # k
    THEN [raised |-> TRUE, row |-> << >>]
    ELSE [raised |-> FALSE,
          row |-> [n \in 1..Len(FIELDNAMES) |->
                     IF FIELDNAMES[n] \in DOMAIN d THEN d[FIELDNAMES[n]] ELSE << >>]]

----------------------------------------------------------------------------
(* Command.upload_to_s3, and the settings it and handle read *)

REPORT_URL_EXPIRATION_TIME == 60 * 60 * 24 * 30

S3_REPORT_PREFIX == "settings.S3_REPORT_PREFIX"
S3_REPORT_BUCKET == "settings.S3_REPORT_BUCKET"
CONTACT_EMAIL == "settings.CONTACT_EMAIL"

\* object: what set_contents_from_string stores; url: what generate_url returns
upload_to_s3(filename, contents) ==
    LET key == << S3_REPORT_PREFIX, filename >>
    IN  [ object |-> [bucket |-> S3_REPORT_BUCKET, key |-> key, contents |-> contents],
          url |-> [bucket |-> S3_REPORT_BUCKET, key |-> key,
                   expires_in |-> REPORT_URL_EXPIRATION_TIME] ]

----------------------------------------------------------------------------
(* Values every specification starts from *)

NoOptions == [start_date |-> NoDate, end_date |-> NoDate]
NoRaw == [model |-> "none"]
NoUrl == [bucket |-> "none"]

CommandIdle ==
    /\ argv = << >>
    /\ options = NoOptions
    /\ bounties = << >>
    /\ tips = << >>
    /\ csvfile = << >>
    /\ has_rows = FALSE
    /\ s3 = << >>
    /\ outbox = << >>
    /\ url = NoUrl
    /\ events = << >>
    /\ failed_at = "nowhere"

----------------------------------------------------------------------------
(* One invocation of the command: argparse, then Command.handle.            *)

\* the arguments an operator may type: two dates, a date with hyphens, and
\* the 30th of February
ArgDates == { << 2018, "/", 1, "/", 1 >>, << 2018, "/", 1, "/", 2 >>,
              << 2018, "-", 1, "-", 1 >>, << 2018, "/", 2, "/", 30 >> }

\* values of str(datetime.datetime.now())
Nows == { "now1", "now2" }

Init ==
    /\ pc = "parse"
    /\ argv \in ArgDates \X ArgDates
    /\ options = NoOptions
    /\ bounties = << >>
    /\ tips = << >>
    /\ gen = NoGen
    /\ csvfile = << >>
    /\ has_rows = FALSE
    /\ stdout = << >>
    /\ s3 = << >>
    /\ outbox = << >>
    /\ url = NoUrl
    /\ events = << >>
    /\ failed_at = "nowhere"
    /\ raw = NoRaw /\ item = NoItem
    /\ S1 = << >> /\ S2 = << >> /\ out = << >>

\* an exception leaves handle: nothing catches it, the invocation ends
Abort(step) ==
    /\ pc' = "aborted"
    /\ failed_at' = step

\* add_arguments: argparse converts start_date, then end_date, with
\* valid_date and ends the invocation with a usage error on the first
\* ArgumentTypeError
ParseArgs ==
    /\ pc = "parse"
    /\ LET start == valid_date(argv[1])
           end   == valid_date(argv[2])
       IN  IF start.ok /\ end.ok
           THEN /\ options' = [start_date |-> start.value, end_date |-> end.value]
                /\ pc' = "query_bounties"
                /\ events' = events
           ELSE /\ options' = options
                /\ pc' = "usage_error"
                /\ events' = Append(events, "usage_error")
    /\ UNCHANGED << argv, bounties, tips, gen, csvfile, has_rows, stdout, s3, outbox,
                    url, failed_at, raw, item, S1, S2, out >>

\* lines 113-118 and 126: the Bounty query, run against whatever the table
\* holds when imap takes the iterator of the queryset
QueryBounties ==
    /\ pc = "query_bounties"
    /\ \E n \in 0..MaxRows : \E cols \in [1..n -> BountyColumns] :
          bounties' = bounty_query(BountyTable(cols), options)
    /\ pc' = "query_tips"
    /\ events' = Append(events, "query_bounties")
    /\ UNCHANGED << argv, options, tips, gen, csvfile, has_rows, stdout, s3, outbox,
                    url, failed_at, raw, item, S1, S2, out >>

\* lines 120-124 and 127: the Tip query
QueryTips ==
    /\ pc = "query_tips"
    /\ \E n \in 0..MaxRows : \E cols \in [1..n -> TipColumns] :
          tips' = tip_query(TipTable(cols), options)
    /\ pc' = "header"
    /\ events' = Append(events, "query_tips")
    /\ UNCHANGED << argv, options, bounties, gen, csvfile, has_rows, stdout, s3, outbox,
                    url, failed_at, raw, item, S1, S2, out >>

\* the store fails a query
QueryFails ==
    /\ pc \in { "query_bounties", "query_tips" }
    /\ Abort("query")
    /\ UNCHANGED << argv, options, bounties, tips, gen, csvfile, has_rows, stdout, s3,
                    outbox, url, events, raw, item, S1, S2, out >>

\* lines 129-136
WriteHeader ==
    /\ pc = "header"
    /\ csvfile' = << FIELDNAMES >>
    /\ has_rows' = FALSE
    /\ gen' = NoGen
    /\ pc' = "rows"
    /\ events' = Append(events, "header")
    /\ UNCHANGED << argv, options, bounties, tips, stdout, s3, outbox, url, failed_at,
                    raw, item, S1, S2, out >>

\* imap(self.format_bounty, bounties) and imap(self.format_tip, tips): the
\* k-th element is made when the merge takes it
formatted_bounties == [k \in 1..Len(bounties) |-> format_bounty(bounties[k])]
formatted_tips == [k \in 1..Len(tips) |-> format_tip(tips[k])]

ItemsOf(formatted) == [k \in 1..Len(formatted) |-> formatted[k].item]

\* the next() of the merge in the for statement of line 137
NextOfMerge == merge_call(ItemsOf(formatted_bounties), ItemsOf(formatted_tips), gen)

\* the elements the two imaps made during that next(), the bounty first
MadeDuring(r) ==
    SubSeq(formatted_bounties, gen.i + 1, r.g.i) \o SubSeq(formatted_tips, gen.j + 1, r.g.j)

RECURSIVE WarningsOf(_)
WarningsOf(made) ==
    IF made = << >> THEN << >> ELSE Head(made).warn \o WarningsOf(Tail(made))

\* lines 137-139, one iteration of the loop: the merge yields an item and
\* the row is written
WriteRow ==
    /\ pc = "rows"
    /\ LET r == NextOfMerge
           made == MadeDuring(r)
           w == writerow(r.yielded)
       IN  /\ ~r.stop
           /\ stdout' = stdout \o WarningsOf(made)
           /\ gen' = r.g
           /\ IF (\E k \in 1..Len(made) : made[k].raised) \/ w.raised
              THEN /\ Abort("render")
                   /\ UNCHANGED << csvfile, has_rows, events >>
              ELSE /\ has_rows' = TRUE
                   /\ csvfile' = Append(csvfile, w.row)
                   /\ events' = Append(events, "row")
                   /\ UNCHANGED << pc, failed_at >>
    /\ UNCHANGED << argv, options, bounties, tips, s3, outbox, url, raw, item, S1, S2, out >>

\* line 137: the merge is exhausted, the loop ends
LoopEnds ==
    /\ pc = "rows"
    /\ NextOfMerge.stop
    /\ gen' = NextOfMerge.g
    /\ pc' = "report"
    /\ UNCHANGED << argv, options, bounties, tips, csvfile, has_rows, stdout, s3, outbox,
                    url, events, failed_at, raw, item, S1, S2, out >>

\* an exception inside the loop while a record is taken and normalised
\* (the properties of a row that format_* reads go back to the store)
RenderFails ==
    /\ pc = "rows"
    /\ ~NextOfMerge.stop
    /\ Abort("render")
    /\ UNCHANGED << argv, options, bounties, tips, gen, csvfile, has_rows, stdout, s3,
                    outbox, url, events, raw, item, S1, S2, out >>

\* lines 141-142
start_text == strftime(options.start_date, DATE_FORMAT_HYPHENATED)
end_text == strftime(options.end_date, DATE_FORMAT_HYPHENATED)

\* line 144: if has_rows
report_always == TRUE

report_due == has_rows

\* line 147: csvfile.getvalue()
report_contents_header_only == SubSeq(csvfile, 1, 1)

report_contents == csvfile

\* line 148: '<a href="%s">%s</a>' % (url, url)
report_link(u) == [href |-> u, text |-> u]

\* lines 143-147
Upload ==
    /\ pc = "report"
    /\ report_due
    /\ \E now \in Nows :
          LET filename == << "activity_report", start_text, end_text, "generated_on", now, ".csv" >>
              up == upload_to_s3(filename, report_contents)
          IN  /\ s3' = Append(s3, up.object)
              /\ url' = up.url
    /\ pc' = "mail"
    /\ events' = Append(events, "upload")
    /\ UNCHANGED << argv, options, bounties, tips, gen, csvfile, has_rows, stdout, outbox,
                    failed_at, raw, item, S1, S2, out >>

\* boto fails in upload_to_s3
UploadFailsCaught ==
    /\ pc = "report"
    /\ report_due
    /\ failed_at' = "upload"
    /\ pc' = "mail"
    /\ UNCHANGED << argv, options, bounties, tips, gen, csvfile, has_rows, stdout, s3,
                    outbox, url, events, raw, item, S1, S2, out >>

UploadFails ==
    /\ pc = "report"
    /\ report_due
    /\ Abort("upload")
    /\ UNCHANGED << argv, options, bounties, tips, gen, csvfile, has_rows, stdout, s3,
                    outbox, url, events, raw, item, S1, S2, out >>

\* lines 145-150
SendMail ==
    /\ pc = "mail"
    /\ outbox' = Append(outbox,
                        [ from_email |-> CONTACT_EMAIL, to_email |-> CONTACT_EMAIL,
                          subject |-> << "Gitcoin Activity report", start_text, end_text >>,
                          body |-> << >>, html |-> report_link(url), add_bcc |-> FALSE ])
    /\ pc' = "sent"
    /\ events' = Append(events, "email")
    /\ UNCHANGED << argv, options, bounties, tips, gen, csvfile, has_rows, stdout, s3,
                    url, failed_at, raw, item, S1, S2, out >>

\* send_mail fails
MailFails ==
    /\ pc = "mail"
    /\ Abort("mail")
    /\ UNCHANGED << argv, options, bounties, tips, gen, csvfile, has_rows, stdout, s3,
                    outbox, url, events, raw, item, S1, S2, out >>

\* line 152
WriteSuccess ==
    /\ pc = "sent"
    /\ stdout' = Append(stdout, SUCCESS_sent(start_text, end_text))
    /\ pc' = "done"
    /\ events' = Append(events, "success")
    /\ UNCHANGED << argv, options, bounties, tips, gen, csvfile, has_rows, s3, outbox,
                    url, failed_at, raw, item, S1, S2, out >>

\* lines 153-154
NoActivity ==
    /\ pc = "report"
    /\ ~report_due
    /\ stdout' = Append(stdout, WARNING_no_activity(start_text, end_text))
    /\ pc' = "done"
    /\ events' = Append(events, "no_activity")
    /\ UNCHANGED << argv, options, bounties, tips, gen, csvfile, has_rows, s3, outbox,
                    url, failed_at, raw, item, S1, S2, out >>

Next ==
    \/ ParseArgs
    \/ QueryBounties
    \/ QueryTips
    \/ QueryFails
    \/ WriteHeader
    \/ WriteRow
    \/ LoopEnds
    \/ RenderFails
    \/ Upload
    \/ UploadFails
    \/ SendMail
    \/ MailFails
    \/ WriteSuccess
    \/ NoActivity

Spec == Init /\ [][Next]_vars

----------------------------------------------------------------------------
(* Properties of the command *)

DataRows == SubSeq(csvfile, 2, Len(csvfile))

\* the cell of a written row under a column of the header
Cell(row, name) == row[CHOOSE n \in 1..Len(csvfile[1]) : csvfile[1][n] = name]

Happened(e) == \E n \in 1..Len(events) : events[n] = e

Times_(e) == Cardinality({ n \in 1..Len(events) : events[n] = e })

SuccessWritten == \E n \in 1..Len(stdout) : stdout[n] = SUCCESS_sent(start_text, end_text)

\* C3: a run that completes uploads the document once and sends the e-mail
\* once exactly when the merge yielded a record; with no bounty and no tip
\* in the range there is no upload and no e-mail and the console shows only
\* the "No activity" message.  At the decision has_rows is TRUE exactly when
\* a data row was written.
ReportIffRows ==
    /\ Len(s3) <= 1 /\ Len(outbox) <= 1
    /\ pc = "report" => (has_rows <=> Len(DataRows) >= 1)
    /\ pc = "done" =>
         IF Len(bounties) + Len(tips) >= 1
         THEN Len(s3) = 1 /\ Len(outbox) = 1 /\ Times_("upload") = 1 /\ Times_("email") = 1
         ELSE /\ s3 = << >> /\ outbox = << >>
              /\ ~Happened("upload") /\ ~Happened("email")
              /\ stdout = << WARNING_no_activity(start_text, end_text) >>

\* a run over a range without records has completed
NothingToReport ==
    /\ pc = "done"
    /\ bounties = << >> /\ tips = << >>
    /\ s3 = << >> /\ outbox = << >>

\* C4: once the loop has consumed the merge, the data rows are in
\* non-decreasing order of created_on, there is one row for each bounty and
\* one for each tip the queries returned, and every row has a created_on.
RowsOrderedOnePerRecord ==
    pc \in { "report", "mail", "sent", "done" } =>
        /\ \A n \in 1..(Len(DataRows) - 1) :
              Cell(DataRows[n], "created_on") <= Cell(DataRows[n + 1], "created_on")
        /\ \A n \in 1..Len(DataRows) : Cell(DataRows[n], "created_on") # NoTime
        /\ Len(DataRows) = Len(bounties) + Len(tips)
        /\ \A k \in 1..Len(bounties) :
              Cardinality({ n \in 1..Len(DataRows) :
                              /\ Cell(DataRows[n], "type") = "bounty"
                              /\ Cell(DataRows[n], "status") = bounties[k].status
                              /\ Cell(DataRows[n], "created_on") = bounties[k].web3_created }) = 1
        /\ \A k \in 1..Len(tips) :
              Cardinality({ n \in 1..Len(DataRows) :
                              /\ Cell(DataRows[n], "type") = "tip"
                              /\ Cell(DataRows[n], "status") = tips[k].status
                              /\ Cell(DataRows[n], "created_on") = tips[k].created_on }) = 1

\* a bounty with a lower id and a later time than another bounty, and a tip
\* of the time of the earlier one, have been written
LaterBountyWithLowerId ==
    /\ pc = "done"
    /\ Len(bounties) = 2 /\ Len(tips) = 1
    /\ bounties[1].id > bounties[2].id
    /\ bounties[1].web3_created = tips[1].created_on
    /\ tips[1].created_on < bounties[2].web3_created
    /\ Cell(DataRows[2], "type") = "tip"

RecordFields ==
    { "type", "created_on", "last_activity", "amount", "denomination", "amount_eth",
      "amount_usdt", "from_address", "claimee_address", "repo", "from_username",
      "claimee_github_username", "status", "comments" }

\* C5: whenever the document has been started its first row is the header,
\* the 14 field names in their order, also in a run without records; no
\* later row is a header; every record of format_bounty and format_tip has
\* exactly these 14 keys.
HeaderFirstFourteenFields ==
    /\ (Happened("header") \/ pc \in { "rows", "report", "mail", "sent", "done" }) =>
          /\ Len(csvfile) >= 1
          /\ csvfile[1] = << "type", "created_on", "last_activity", "amount",
                             "denomination", "amount_eth", "amount_usdt", "from_address",
                             "claimee_address", "repo", "from_username",
                             "claimee_github_username", "status", "comments" >>
          /\ Times_("header") = 1
          /\ events[Len(events) - Times_("row") - Times_("upload") - Times_("email")
                      - Times_("success") - Times_("no_activity")] = "header"
    /\ ~Happened("header") => csvfile = << >>
    /\ \A k \in 1..Len(bounties) : DOMAIN formatted_bounties[k].item = RecordFields
    /\ \A k \in 1..Len(tips) : DOMAIN formatted_tips[k].item = RecordFields

\* a run without records has completed with a document of one row
HeaderOnlyDocument ==
    /\ pc = "done"
    /\ Len(csvfile) = 1
    /\ Happened("no_activity")

IsCalendarDay(y, m, d) ==
    /\ m \in 1..12
    /\ d >= 1
    /\ d <= (CASE m \in { 1, 3, 5, 7, 8, 10, 12 } -> 31
               [] m \in { 4, 6, 9, 11 } -> 30
               [] OTHER -> IF y % 4 = 0 /\ (y % 100 # 0 \/ y % 400 = 0) THEN 29 ELSE 28)

\* the text is <year>/<month>/<day> and that day exists
IsSlashDate(v) ==
    /\ Len(v) = 5
    /\ v[2] = "/" /\ v[4] = "/"
    /\ v[1] >= 1 /\ v[1] <= 9999
    /\ IsCalendarDay(v[1], v[3], v[5])

\* C7: when start_date or end_date is no valid date in YYYY/MM/DD format the
\* invocation ends in a usage error while the arguments are parsed: no
\* query, no document, no upload and no e-mail.
BadDateIsUsageError ==
    /\ (pc # "parse" /\ ~(IsSlashDate(argv[1]) /\ IsSlashDate(argv[2]))) =>
          /\ pc = "usage_error"
          /\ events = << "usage_error" >>
          /\ bounties = << >> /\ tips = << >>
          /\ csvfile = << >> /\ s3 = << >> /\ outbox = << >> /\ stdout = << >>
    /\ pc = "usage_error" => ~(IsSlashDate(argv[1]) /\ IsSlashDate(argv[2]))

\* a date with hyphens as end_date was refused
HyphenDateRefused ==
    /\ pc = "usage_error"
    /\ IsSlashDate(argv[1])
    /\ argv[2] = << 2018, "-", 1, "-", 1 >>

\* C9: a failure of the store, of the upload or of the mail transport ends
\* the run where it happens: nothing follows it, no upload after a failed
\* query or a failure in the loop, no e-mail after a failed upload, and the
\* "Sent activity report" message is never written.
FailureEndsRun ==
    failed_at # "nowhere" =>
        /\ pc = "aborted"
        /\ ~ENABLED Next
        /\ ~SuccessWritten
        /\ ~Happened("success")
        /\ failed_at \in { "query", "render" } => s3 = << >> /\ outbox = << >>
        /\ failed_at = "upload" => s3 = << >> /\ outbox = << >>
        /\ failed_at = "mail" => outbox = << >>

\* the upload of a document with rows has failed
UploadFailed ==
    /\ pc = "aborted"
    /\ failed_at = "upload"
    /\ Len(csvfile) > 1

\* the effects other than the queries, in order
RECURSIVE Effects(_)
Effects(es) ==
    IF es = << >> THEN << >>
    ELSE IF Head(es) \in { "query_bounties", "query_tips" } THEN Effects(Tail(es))
    ELSE << Head(es) >> \o Effects(Tail(es))

\* C10: in a run that sends an e-mail the header was written, then all the
\* merged rows, then the document was uploaded once, then the e-mail was
\* sent once, then the success message; the uploaded contents are the whole
\* document and the link of the e-mail, address and text, is the URL that
\* the upload returned.
ReportStepsInOrder ==
    outbox # << >> =>
        LET n == Len(bounties) + Len(tips)
        IN  /\ n >= 1
            /\ pc \in { "sent", "done" }
            /\ Effects(events) = << "header" >> \o [k \in 1..n |-> "row"]
                                   \o << "upload", "email" >>
                                   \o (IF pc = "done" THEN << "success" >> ELSE << >>)
            /\ pc = "done" => stdout[Len(stdout)] = SUCCESS_sent(start_text, end_text)
            /\ pc = "sent" => ~SuccessWritten
            /\ Len(s3) = 1 /\ Len(outbox) = 1
            /\ Len(csvfile) = n + 1
            /\ s3[1].contents = csvfile
            /\ url # NoUrl
            /\ url.key = s3[1].key /\ url.bucket = s3[1].bucket
            /\ outbox[1].html = [href |-> url, text |-> url]

\* a report of a bounty and a tip has been sent
ReportSent ==
    /\ pc = "done"
    /\ outbox # << >>
    /\ bounties # << >> /\ tips # << >>

----------------------------------------------------------------------------
(* The normaliser on its own: one raw record, one call of format_*.        *)

UrlTokens == { "G", "/", "w", "-", ":" }

Urls == { Expand(ts) : ts \in UNION { [1..n -> UrlTokens] : n \in 0..MaxUrlLen } }

\* values of a user-name or e-mail column: NULL, empty, or a name
Names == { None, << >>, << "a", "l" >> }

\* A bounty always has its issue URL; a tip may have none.  The URL and the
\* names are varied separately: no field of the record depends on both.
NormBounties ==
    { Bounty(1, 1, "mainnet", TRUE, u, None, None) : u \in Urls }
    \cup { Bounty(1, 1, "mainnet", TRUE, GitcoinWebUrl, o, c) : o \in Names, c \in Names }

NormTips ==
    { Tip(1, 1, "mainnet", u, << >>) : u \in Urls \cup { None } }
    \cup { Tip(1, 1, "mainnet", GitcoinWebUrl, e) : e \in Names }

NormInit ==
    /\ CommandIdle
    /\ pc = "normalise"
    /\ raw \in NormBounties \cup NormTips
    /\ item = NoItem
    /\ stdout = << >>
    /\ gen = NoGen
    /\ S1 = << >> /\ S2 = << >> /\ out = << >>

Normalise(r) ==
    /\ item' = r.item
    /\ stdout' = stdout \o r.warn
    /\ pc' = IF r.raised THEN "raised" ELSE "normalised"
    /\ UNCHANGED << argv, options, bounties, tips, gen, csvfile, has_rows, s3, outbox,
                    url, events, failed_at, raw, S1, S2, out >>

NormaliseBounty ==
    /\ pc = "normalise"
    /\ raw.model = "Bounty"
    /\ Normalise(format_bounty(raw))

NormaliseTip ==
    /\ pc = "normalise"
    /\ raw.model = "Tip"
    /\ Normalise(format_tip(raw))

NormNext == NormaliseBounty \/ NormaliseTip

SpecNorm == NormInit /\ [][NormNext]_vars

----------------------------------------------------------------------------
(* Properties of the normaliser *)

\* u = prefix . "github" any "com/" . owner . "/" . repo . rest, where the
\* literal starts at p, the repo at r and the rest at e; owner and repo
\* are non-empty runs of [\w-] and the repo run cannot be extended.
OwnerShape(u, p, r) ==
    /\ u[r - 1] = "/"
    /\ \A k \in (p + Len(PatternLiteral))..(r - 2) : u[k] \in ClassChars

RepoShape(u, r, e) ==
    /\ \A k \in r..(e - 1) : u[k] \in ClassChars
    /\ e <= Len(u) => u[e] \notin ClassChars

\* the repo segments of the matches whose literal starts at p
CapturesAt(u, p) ==
    IF ~LiteralAt(u, p) THEN { }
    ELSE UNION { IF ~OwnerShape(u, p, r) THEN { }
                 ELSE { SubSeq(u, r, e - 1) : e \in { x \in (r + 1)..(Len(u) + 1) : RepoShape(u, r, x) } }
                 : r \in (p + Len(PatternLiteral) + 2)..Len(u) }

MatchStarts(u) == { p \in 1..Len(u) : CapturesAt(u, p) # { } }

\* C6: normalisation never fails on the repository field: a URL matching
\* github.com/<owner>/<repo> gives the captured repo segment (of the leftmost
\* match) and no warning, a URL that does not match is kept unchanged and one
\* warning naming it is written, and an absent URL gives the empty string.
RepoExtractionTotal ==
    /\ pc # "raised"
    /\ pc = "normalised" =>
         LET u == raw.github_url
         IN  IF ~Truthy(u)
             THEN /\ item.repo = << >>
                  /\ raw.model = "Tip" => stdout = << >>
             ELSE IF MatchStarts(u) # { }
             THEN /\ \E p \in MatchStarts(u) :
                        /\ \A q \in MatchStarts(u) : p <= q
                        /\ CapturesAt(u, p) = { item.repo }
                  /\ stdout = << >>
             ELSE /\ item.repo = u
                  /\ stdout = << WARNING_malformed(u) >>

\* a tip without URL was normalised, and so was a URL with a match that is
\* neither at the start nor up to the end of the string
AbsentUrlNormalised ==
    /\ pc = "normalised"
    /\ raw.model = "Tip"
    /\ raw.github_url = None
    /\ item.repo = << >>

RepoCaptured ==
    /\ pc = "normalised"
    /\ raw.github_url = Expand(<< ":", "G", "w", "/", "-" >>)
    /\ item.repo = << "-" >>

\* C8: from_username and claimee_github_username of a normalised record are
\* strings, the empty string when the source value is missing, never None.
UsernamesNeverNone ==
    pc = "normalised" =>
        /\ item.from_username # None
        /\ item.claimee_github_username # None

----------------------------------------------------------------------------
(* The merge on its own: two sorted sequences, consumed item by item.      *)

Tags == { "x", "y" }

Elements(type) == [ created_on : 1..MaxKey, type : { type }, tag : Tags ]

IsSorted(s) == \A p \in 1..(Len(s) - 1) : s[p].created_on <= s[p + 1].created_on

SortedSeqs(type) ==
    { s \in UNION { [1..n -> Elements(type)] : n \in 0..MaxLen } : IsSorted(s) }

MergeInit ==
    /\ CommandIdle
    /\ pc = "merge"
    /\ S1 \in SortedSeqs("bounty")
    /\ S2 \in SortedSeqs("tip")
    /\ gen = NoGen
    /\ out = << >>
    /\ raw = NoRaw /\ item = NoItem /\ stdout = << >>

MergeYield ==
    /\ pc = "merge"
    /\ LET r == merge_call(S1, S2, gen)
       IN  /\ ~r.stop
           /\ out' = Append(out, r.yielded)
           /\ gen' = r.g
    /\ UNCHANGED << pc, argv, options, bounties, tips, csvfile, has_rows, stdout, s3,
                    outbox, url, events, failed_at, raw, item, S1, S2 >>

MergeStop ==
    /\ pc = "merge"
    /\ LET r == merge_call(S1, S2, gen)
       IN  /\ r.stop
           /\ gen' = r.g
    /\ pc' = "merged"
    /\ UNCHANGED << argv, options, bounties, tips, csvfile, has_rows, stdout, s3,
                    outbox, url, events, failed_at, raw, item, S1, S2, out >>

MergeNext == MergeYield \/ MergeStop

SpecMerge == MergeInit /\ [][MergeNext]_vars

----------------------------------------------------------------------------
(* Properties of the merge *)

Occurrences(s, x) == Cardinality({ p \in 1..Len(s) : s[p] = x })

Members(s) == { s[p] : p \in 1..Len(s) }

RECURSIVE Only(_, _)
Only(s, type) ==
    IF s = << >> THEN << >>
    ELSE IF Head(s).type = type THEN << Head(s) >> \o Only(Tail(s), type)
    ELSE Only(Tail(s), type)

\* C1: the merge of two sequences sorted by created_on is sorted by
\* created_on and holds every element as often as the two inputs together,
\* so its length is the sum of theirs; an empty input changes nothing.
MergeSortedPermutation ==
    pc = "merged" =>
        /\ IsSorted(out)
        /\ Len(out) = Len(S1) + Len(S2)
        /\ \A x \in Members(S1) \cup Members(S2) \cup Members(out) :
              Occurrences(out, x) = Occurrences(S1, x) + Occurrences(S2, x)
        /\ S1 = << >> => out = S2
        /\ S2 = << >> => out = S1

\* both inputs hold an element more than once and their keys interleave
MergedWithDuplicates ==
    /\ pc = "merged"
    /\ Len(S1) = 3 /\ S1[1] = S1[2] /\ S1[3].created_on = 2
    /\ Len(S2) = 3 /\ S2[2] = S2[3] /\ S2[1].created_on = 1
    /\ S1[1].created_on = 1 /\ S2[3].created_on = 2

\* C2: with equal keys an element of the first input comes before an
\* element of the second, and the elements of one input keep their order.
MergeStableFirstPrecedence ==
    pc = "merged" =>
        /\ \A p \in 1..Len(out), q \in 1..Len(out) :
              (out[p].type = "bounty" /\ out[q].type = "tip"
                 /\ out[p].created_on = out[q].created_on) => p < q
        /\ Only(out, "bounty") = S1
        /\ Only(out, "tip") = S2

\* a bounty and a tip with the same key were merged
TieMerged ==
    /\ pc = "merged"
    /\ \E p \in 1..Len(S1), q \in 1..Len(S2) : S1[p].created_on = S2[q].created_on
    /\ Len(S1) > 1 /\ Len(S2) > 1

====
